---- MODULE Spec2Model ----
(***************************************************************************)
(* Model of the web-browsing agent of intern_holo: the action vocabulary   *)
(* and its parser (src/holo/Agent/agent.py), the two deciders              *)
(* (Holo1Navigator.decide_next_action, WebBrowsingAgent.navigate), and the *)
(* two control loops (WebBrowsingAgent.run_task over a browser controller, *)
(* WebNavigationAgent.run_task over Selenium).                             *)
(*                                                                         *)
(* Text is modelled by its structure.  A JSON scalar is a record           *)
(* [ty, n, s]; an optional JSON member is a sequence of length 0 or 1; a   *)
(* model response is an optional code fence around a body that is either   *)
(* non-JSON text or a JSON value.                                          *)
(***************************************************************************)
EXTENDS Integers, Sequences, FiniteSets, TLC

(***************************************************************************)
(* Bounds of the model.                                                    *)
(***************************************************************************)
\* largest max_steps argument passed to run_task
MaxSteps == 3
\* decider invocations explored within one task
MaxDecisions == 5
\* run_task calls on one agent
MaxTasks == 2
\* recorded steps in a memory whose history is rendered
MaxHistory == 6
\* pieces of a response text the localizer's pattern is searched in
MaxFrags == 2

(***************************************************************************)
(* Program constants.                                                      *)
(***************************************************************************)
\* WebBrowsingAgent.__init__: self.max_steps = 50
DefaultMaxSteps == 50
\* _execute_action: if self.scroll_count > 3
ScrollLimit == 3
\* memory.actions[-3:] and self.memory[-5:]
HistoryWindow == 3
MemoryWindow == 5
\* WaitAction.seconds: default=2, ge=0, le=10
WaitDefault == 2
WaitMin == 0
WaitMax == 10

(***************************************************************************)
(* JSON values.                                                            *)
(***************************************************************************)
JStr(s) == [ty |-> "str", n |-> 0, s |-> s]
JInt(n) == [ty |-> "int", n |-> n, s |-> ""]
\* a number with a fractional part, e.g. 2.5
JFrac == [ty |-> "frac", n |-> 0, s |-> ""]
JNull == [ty |-> "null", n |-> 0, s |-> ""]
Absent == <<>>
Some(v) == <<v>>

\* strings that Python's int() / pydantic's lax int validation read as a number
NumericStrings == {"15", "7"}
StrToInt(s) == IF s = "15" THEN 15 ELSE 7

\* pydantic: a `str` field accepts only a string
IsStr(o) == o # Absent /\ o[1].ty = "str"
\* pydantic: an `int` field accepts an integer or a numeric string
IsInt(o) == o # Absent /\ (o[1].ty = "int" \/ (o[1].ty = "str" /\ o[1].s \in NumericStrings))
AsInt(o) == IF o[1].ty = "int" THEN o[1].n ELSE StrToInt(o[1].s)

(***************************************************************************)
(* The action vocabulary: agent.py, ActionSpace.                           *)
(***************************************************************************)
Directions == {"down", "up", "left", "right"}
ActionTags == {"click_element", "write_element_abs", "scroll", "go_back",
               "refresh", "goto", "wait", "answer"}

\* a validated action; the fields a variant does not have hold "" or 0
Action(tag, element, content, x, y, direction, url, seconds) ==
    [action |-> tag, element |-> element, content |-> content, x |-> x, y |-> y,
     direction |-> direction, url |-> url, seconds |-> seconds]
ClickElementAction(element, x, y) == Action("click_element", element, "", x, y, "", "", 0)
WriteElementAction(content, element, x, y) ==
    Action("write_element_abs", element, content, x, y, "", "", 0)
ScrollAction(direction) == Action("scroll", "", "", 0, 0, direction, "", 0)
GoBackAction == Action("go_back", "", "", 0, 0, "", "", 0)
RefreshAction == Action("refresh", "", "", 0, 0, "", "", 0)
GotoAction(url) == Action("goto", "", "", 0, 0, "", url, 0)
WaitAction(seconds) == Action("wait", "", "", 0, 0, "", "", seconds)
AnswerAction(content) == Action("answer", "", content, 0, 0, "", "", 0)
RestartAction == Action("restart", "", "", 0, 0, "", "", 0)
NoAction == Action("", "", "", 0, 0, "", "", 0)

\* a serialized action: the members of the JSON object, each optional
Payload(tag, element, content, x, y, direction, url, seconds) ==
    [action |-> tag, element |-> element, content |-> content, x |-> x, y |-> y,
     direction |-> direction, url |-> url, seconds |-> seconds]

Ok(v) == [ok |-> TRUE, val |-> v]
Fail(v) == [ok |-> FALSE, val |-> v]

\* the bound le=10 left out
WaitSecondsOk_NoUpper(n) == n >= WaitMin
\* WaitAction.seconds: Field(default=2, ge=0, le=10)
WaitSecondsOk(n) == n >= WaitMin /\ n <= WaitMax

TagOf(p) == IF IsStr(p.action) THEN p.action[1].s ELSE ""

\* Validation of a serialized action against the Union of the eight variants.
\* Every variant but AnswerAction requires its `action` tag, so at most one
\* variant accepts a payload; AnswerAction's tag has a default, so a payload
\* without a tag is accepted by AnswerAction when it has a string `content`.
\* Members a variant does not declare are ignored.
ParseAction(p) ==
    IF p.action = Absent
    THEN IF IsStr(p.content) THEN Ok(AnswerAction(p.content[1].s)) ELSE Fail(NoAction)
    ELSE IF ~IsStr(p.action) THEN Fail(NoAction)
    ELSE LET tag == p.action[1].s IN
      CASE tag = "click_element" ->
             IF IsStr(p.element) /\ IsInt(p.x) /\ IsInt(p.y)
             THEN Ok(ClickElementAction(p.element[1].s, AsInt(p.x), AsInt(p.y)))
             ELSE Fail(NoAction)
        [] tag = "write_element_abs" ->
             IF IsStr(p.content) /\ IsStr(p.element) /\ IsInt(p.x) /\ IsInt(p.y)
             THEN Ok(WriteElementAction(p.content[1].s, p.element[1].s, AsInt(p.x), AsInt(p.y)))
             ELSE Fail(NoAction)
        [] tag = "scroll" ->
             IF IsStr(p.direction) /\ p.direction[1].s \in Directions
             THEN Ok(ScrollAction(p.direction[1].s))
             ELSE Fail(NoAction)
        [] tag = "go_back" -> Ok(GoBackAction)
        [] tag = "refresh" -> Ok(RefreshAction)
        [] tag = "goto" ->
             IF IsStr(p.url) THEN Ok(GotoAction(p.url[1].s)) ELSE Fail(NoAction)
        [] tag = "wait" ->
             IF p.seconds = Absent THEN Ok(WaitAction(WaitDefault))
             ELSE IF IsInt(p.seconds) /\ WaitSecondsOk(AsInt(p.seconds))
                  THEN Ok(WaitAction(AsInt(p.seconds)))
                  ELSE Fail(NoAction)
        [] tag = "answer" ->
             IF IsStr(p.content) THEN Ok(AnswerAction(p.content[1].s)) ELSE Fail(NoAction)
        [] OTHER -> Fail(NoAction)

\* The vocabulary WebBrowsingAgent dispatches: the eight variants and `restart`,
\* which _execute_action handles besides them.
NavParseAction(p) ==
    IF TagOf(p) = "restart" THEN Ok(RestartAction) ELSE ParseAction(p)

(***************************************************************************)
(* NavigationStep and its validation.                                      *)
(***************************************************************************)
NavigationStep(note, thought, action) ==
    [note |-> note, thought |-> thought, action |-> action]
NoStep == NavigationStep("", "", NoAction)

\* A JSON value sent as a step: k is "obj" for an object, else the kind of a
\* value that is no object ("null", "list").  actk tells whether the member
\* `action` is absent, an object, or something else.
StepPayload(k, note, thought, actk, act) ==
    [k |-> k, note |-> note, thought |-> thought, actk |-> actk, act |-> act]
EmptyPayload == Payload(Absent, Absent, Absent, Absent, Absent, Absent, Absent, Absent)

\* NavigationStep(**step_data) with the Selenium agent's vocabulary:
\* step_data must be a mapping; thought is required; note defaults to "".
ParseStep(v) ==
    IF v.k # "obj" THEN Fail(NoStep)
    ELSE IF ~IsStr(v.thought) THEN Fail(NoStep)
    ELSE IF v.note # Absent /\ ~IsStr(v.note) THEN Fail(NoStep)
    ELSE IF v.actk # "obj" THEN Fail(NoStep)
    ELSE LET a == ParseAction(v.act) IN
         IF a.ok
         THEN Ok(NavigationStep(IF v.note = Absent THEN "" ELSE v.note[1].s,
                                v.thought[1].s, a.val))
         ELSE Fail(NoStep)

\* the same with the vocabulary of WebBrowsingAgent
NavParseStep(v) ==
    IF v.k # "obj" THEN Fail(NoStep)
    ELSE IF ~IsStr(v.thought) THEN Fail(NoStep)
    ELSE IF v.note # Absent /\ ~IsStr(v.note) THEN Fail(NoStep)
    ELSE IF v.actk # "obj" THEN Fail(NoStep)
    ELSE LET a == NavParseAction(v.act) IN
         IF a.ok
         THEN Ok(NavigationStep(IF v.note = Absent THEN "" ELSE v.note[1].s,
                                v.thought[1].s, a.val))
         ELSE Fail(NoStep)

(***************************************************************************)
(* Model responses and json.loads.                                         *)
(***************************************************************************)
\* body.t: "empty" (the empty string), "garbage" (text that is no JSON), "json"
Body(t, v) == [t |-> t, v |-> v]
NoValue == StepPayload("null", Absent, Absent, "absent", EmptyPayload)
\* fence: "none", "json" (```json ... ```), "plain" (``` ... ```)
Text(fence, body) == [fence |-> fence, body |-> body]
EmptyText == Text("none", Body("empty", NoValue))

\* json.loads: the whole text must be one JSON value
JsonLoads(text) ==
    IF text.fence = "none" /\ text.body.t = "json"
    THEN Ok(text.body.v) ELSE Fail(NoValue)

\* navigate: response.split("```json")[1].split("```")[0].strip(), or the same
\* with "```", when the response starts with that marker
StripFence(text) ==
    IF text.fence \in {"json", "plain"} THEN Text("none", text.body) ELSE text

\* what the model does on one call: it raises, or returns a text
Outcome(raised, text) == [raised |-> raised, text |-> text]

(***************************************************************************)
(* The deciders.                                                           *)
(***************************************************************************)
\* the outcome of a try body: exc is "" when it returned, else the exception
Returned(step) == [exc |-> "", step |-> step]
Raised(exc) == [exc |-> exc, step |-> NoStep]

\* Holo1Model.run_inference: logs and re-raises
HoloRunInference(o) == IF o.raised THEN Fail(EmptyText) ELSE Ok(o.text)
\* WebBrowsingAgent.run_inference: except Exception: return ""
RunInference(o) == IF o.raised THEN EmptyText ELSE o.text

\* decide_next_action, the body of its try: inference, json.loads, NavigationStep
DecideTry(o) ==
    LET r == HoloRunInference(o) IN
    IF ~r.ok THEN Raised("InferenceError")
    ELSE LET j == JsonLoads(r.val) IN
         IF ~j.ok THEN Raised("JSONDecodeError")
         ELSE IF j.val.k # "obj" THEN Raised("TypeError")
         ELSE LET st == ParseStep(j.val) IN
              IF st.ok THEN Returned(st.val) ELSE Raised("ValidationError")

\* decide_next_action: the fallback of its except clause
HoloFallback ==
    NavigationStep("Error occurred during decision making",
                   "An error occurred, waiting before retrying", WaitAction(2))
\* an except clause that catches json.JSONDecodeError alone
DecideNextAction_JsonOnly(o) ==
    LET r == DecideTry(o) IN
    IF r.exc = "JSONDecodeError" THEN Returned(HoloFallback) ELSE r
\* decide_next_action: except Exception
DecideNextAction(o) ==
    LET r == DecideTry(o) IN
    IF r.exc # "" THEN Returned(HoloFallback) ELSE r

\* navigate, the body of its try: fence stripping, json.loads, NavigationStep
NavigateTry(response) ==
    LET j == JsonLoads(StripFence(response)) IN
    IF ~j.ok THEN Raised("JSONDecodeError")
    ELSE IF j.val.k # "obj" THEN Raised("TypeError")
    ELSE LET st == NavParseStep(j.val) IN
         IF st.ok THEN Returned(st.val) ELSE Raised("ValidationError")

\* navigate: the default wait action of its except clause
NavFallback ==
    NavigationStep("", "Failed to parse response, waiting before retry", WaitAction(2))
\* navigate: except (json.JSONDecodeError, Exception)
Navigate(o) ==
    LET r == NavigateTry(RunInference(o)) IN
    IF r.exc # "" THEN Returned(NavFallback) ELSE r

\* note.strip() is empty
Blank(note) == note \in {"", " "}

(***************************************************************************)
(* What the model may answer on one decision.                              *)
(***************************************************************************)
Obj(note, act) == StepPayload("obj", note, Some(JStr("t")), "obj", act)
Plain(v) == Outcome(FALSE, Text("none", Body("json", v)))
Tagged(tag) == Payload(Some(JStr(tag)), Absent, Absent, Absent, Absent, Absent, Absent, Absent)

PClick == [Tagged("click_element") EXCEPT !.element = Some(JStr("btn")),
                                          !.x = Some(JInt(1)), !.y = Some(JInt(1))]
PWrite == [Tagged("write_element_abs") EXCEPT !.element = Some(JStr("box")),
                 !.content = Some(JStr("hi")), !.x = Some(JInt(1)), !.y = Some(JInt(1))]
PScroll == [Tagged("scroll") EXCEPT !.direction = Some(JStr("down"))]
PGoto == [Tagged("goto") EXCEPT !.url = Some(JStr("a.com"))]
PWait(sec) == [Tagged("wait") EXCEPT !.seconds = sec]
PAnswer == [Tagged("answer") EXCEPT !.content = Some(JStr("42"))]

\* responses that decode to a step of the vocabulary
ValidResponses ==
    { Plain(Obj(Absent, a)) : a \in {PClick, PWrite, PScroll, Tagged("go_back"),
                                     Tagged("refresh"), PGoto, PAnswer,
                                     Tagged("restart")} }
    \cup { Plain(Obj(Some(JStr("n1")), PWait(Absent))),
           Plain(Obj(Some(JStr(" ")), PWait(Some(JInt(10))))),
           Outcome(FALSE, Text("json", Body("json", Obj(Absent, PAnswer)))) }

\* an empty string, text that is no JSON, JSON of the wrong schema, a failed call
MalformedResponses ==
    { Outcome(TRUE, EmptyText),
      Outcome(FALSE, EmptyText),
      Outcome(FALSE, Text("none", Body("garbage", NoValue))),
      Plain(StepPayload("null", Absent, Absent, "absent", EmptyPayload)),
      Plain(StepPayload("list", Absent, Absent, "absent", EmptyPayload)),
      Plain(StepPayload("obj", Absent, Absent, "obj", PScroll)),
      Plain(StepPayload("obj", Absent, Some(JStr("t")), "absent", EmptyPayload)),
      Plain(StepPayload("obj", Absent, Some(JStr("t")), "nonobj", EmptyPayload)),
      Plain(Obj(Absent, Tagged("fly"))),
      Plain(Obj(Absent, PWait(Some(JInt(15))))),
      Plain(Obj(Absent, PWait(Some(JInt(11))))),
      Plain(Obj(Absent, PWait(Some(JInt(-1))))),
      Plain(Obj(Absent, PWait(Some(JStr("15"))))),
      Plain(Obj(Absent, [PScroll EXCEPT !.direction = Some(JStr("sideways"))])) }

Responses == ValidResponses \cup MalformedResponses

(***************************************************************************)
(* The browser.                                                            *)
(***************************************************************************)
\* one call on the browser backend
Call(op, x, y, s) == [op |-> op, x |-> x, y |-> y, s |-> s]

\* url.startswith(("http://", "https://"))
HasScheme(url) == url \in {"https://a.com", "http://a.com"}
\* "https://" + url
WithHttps(url) == IF url = "a.com" THEN "https://a.com" ELSE "https://?"

\* the browser after one successful call: the page it shows and the position
\* of the relative pointer.  nav tells whether a click leads to another page.
ApplyCall(b, c, nav) ==
    CASE c.op \in {"click", "move_click"} ->
           [page |-> IF nav THEN "other" ELSE b.page,
            px |-> IF c.op = "move_click" THEN b.px + c.x ELSE b.px,
            py |-> IF c.op = "move_click" THEN b.py + c.y ELSE b.py]
      [] c.op = "move" -> [b EXCEPT !.px = b.px + c.x, !.py = b.py + c.y]
      [] c.op = "goto" -> [b EXCEPT !.page = c.s]
      [] c.op = "go_back" -> [b EXCEPT !.page = "back"]
      [] c.op = "restart" -> [b EXCEPT !.page = "blank"]
      [] OTHER -> b

RECURSIVE ApplyCalls(_, _, _)
ApplyCalls(b, calls, nav) ==
    IF calls = <<>> THEN b
    ELSE ApplyCalls(ApplyCall(b, Head(calls), nav), Tail(calls), nav)

(***************************************************************************)
(* The state.                                                              *)
(***************************************************************************)
VARIABLES
    engine,       \* "wba": WebBrowsingAgent, "sel": WebNavigationAgent
    backend,      \* the controller given to WebBrowsingAgent: "generic", "playwright"
    controller,   \* a PlaywrightBrowserController: which handles are set, is_initialized
    pc,           \* where run_task stands
    tasks,        \* run_task calls so far
    arg,          \* the max_steps argument of the current run_task
    max_steps, current_step, memory, task_notes, scroll_count,  \* WebBrowsingAgent
    mem,          \* WebNavigationAgent.memory
    step,         \* WebNavigationAgent.run_task: iterations begun
    resp,         \* what the model did on this step's decision
    tried,        \* how the try body of the decider ended on this decision
    thrown,       \* the exception that left the decider or interrupted run_task ("": none)
    nav_step,     \* the step the decider returned
    result,       \* what run_task gave its caller
    browser,      \* page shown and pointer position
    decisions,    \* decider invocations in this task
    scrollCalls,  \* scroll calls that reached the backend in this task
    stepCalls,    \* backend calls of the current step, in order
    located,      \* localizer calls of the current step: the element asked for, the result
    shot,         \* this step's capture: "none", "ok", "blank", "raised"
    captureFailed,  \* a capture of this task failed
    dispatchRaised, \* the dispatch of this step raised
    captures,     \* screenshot captures begun in this task
    dispatches,   \* dispatches ended in this task, raised or not
    notesSeen,    \* the non-blank notes of the steps parsed in this task, in order
    out           \* what a function called on its own returned or raised

agentVars == <<max_steps, current_step, memory, task_notes, scroll_count>>
obsVars == <<decisions, scrollCalls, stepCalls, located, shot, captureFailed, dispatchRaised,
             captures, dispatches, notesSeen>>
decideVars == <<resp, tried, thrown, nav_step>>
vars == <<engine, backend, controller, pc, tasks, arg, max_steps, current_step, memory, task_notes,
          scroll_count, mem, step, resp, tried, thrown, nav_step, result, browser,
          decisions, scrollCalls, stepCalls, located, shot, captureFailed, dispatchRaised,
          captures, dispatches, notesSeen, out>>

\* PlaywrightBrowserController.__init__: no handle set (None), not initialized
NoController == [playwright |-> FALSE, browser |-> FALSE, context |-> FALSE, page |-> FALSE,
                 is_initialized |-> FALSE]

\* AgentMemory(task=task)
AgentMemory == [screenshots |-> <<>>, actions |-> <<>>, current_url |-> "", step_count |-> 0]

\* what run_task hands back: ret is "dict", "str" (the Selenium agent returns a
\* string), "raise" (an exception left run_task) or "none" (still running)
\* keys are the keys of the dictionary; a member whose key is absent holds "", <<>> or 0
Result(ret, status, keys, final_answer, notes, total_steps, at) ==
    [ret |-> ret, status |-> status, keys |-> keys, final_answer |-> final_answer,
     notes |-> notes, total_steps |-> total_steps, step |-> at]
NoResult == Result("none", "", {}, "", <<>>, 0, 0)
Escaped == Result("raise", "", {}, "", <<>>, 0, 0)
NoOutcome == Outcome(FALSE, EmptyText)
LimitMessage == "Task could not be completed within the step limit"

\* nothing was called on its own
NoReturn == [kind |-> "", parts |-> <<>>]

\* the agent as constructed, no task started
Constructed ==
    /\ controller = NoController
    /\ tasks = 0
    /\ arg = 0
    /\ max_steps = DefaultMaxSteps
    /\ current_step = 1
    /\ memory = <<>>
    /\ task_notes = <<>>
    /\ scroll_count = 0
    /\ mem = AgentMemory
    /\ step = 0
    /\ tried = Returned(NoStep)
    /\ thrown = ""
    /\ nav_step = NoStep
    /\ result = NoResult
    /\ browser = [page |-> "blank", px |-> 0, py |-> 0]
    /\ decisions = 0
    /\ scrollCalls = 0
    /\ stepCalls = <<>>
    /\ located = <<>>
    /\ shot = "none"
    /\ captureFailed = FALSE
    /\ dispatchRaised = FALSE
    /\ captures = 0
    /\ dispatches = 0
    /\ notesSeen = <<>>
    /\ out = NoReturn

Init ==
    /\ engine \in {"wba", "sel"}
    /\ backend \in {"generic", "playwright"}
    /\ engine = "sel" => backend = "generic"
    /\ pc = "idle"
    /\ resp = NoOutcome
    /\ Constructed

NoDecision ==
    /\ resp' = NoOutcome
    /\ tried' = Returned(NoStep)
    /\ thrown' = ""
    /\ nav_step' = NoStep

NewTask ==
    /\ NoDecision
    /\ decisions' = 0
    /\ scrollCalls' = 0
    /\ stepCalls' = <<>>
    /\ located' = <<>>
    /\ shot' = "none"
    /\ captureFailed' = FALSE
    /\ dispatchRaised' = FALSE
    /\ captures' = 0
    /\ dispatches' = 0
    /\ notesSeen' = <<>>
    /\ out' = out

(***************************************************************************)
(* WebBrowsingAgent.run_task                                               *)
(***************************************************************************)
\* run_task up to the loop: `if max_steps:` and reset().  n = 0 stands for a
\* call without max_steps or with max_steps = 0.
RunTask(n) ==
    /\ engine = "wba"
    /\ pc \in {"idle", "done"}
    /\ tasks < MaxTasks
    /\ tasks' = tasks + 1
    /\ arg' = n
    /\ max_steps' = IF n # 0 THEN n ELSE max_steps
    /\ current_step' = 1
    /\ memory' = <<>>
    /\ task_notes' = <<>>
    /\ scroll_count' = 0
    /\ result' = NoResult
    /\ pc' = "loop"
    /\ NewTask
    /\ UNCHANGED <<engine, backend, controller, mem, step, browser>>

\* a loop that goes on to the decision without capturing a screenshot
LoopTest_NoCapture ==
    /\ engine = "wba"
    /\ pc = "loop"
    /\ out' = out
    /\ UNCHANGED <<captures, dispatches, notesSeen>>
    /\ IF current_step <= max_steps
       THEN /\ pc' = "decide"
            /\ result' = result
       ELSE /\ pc' = "done"
            /\ result' = Result("dict", "max_steps_reached",
                                {"status", "message", "final_answer", "total_steps"},
                                "", task_notes, current_step - 1, 0)
    /\ stepCalls' = <<>>
    /\ located' = <<>>
    /\ shot' = "none"
    /\ NoDecision
    /\ dispatchRaised' = FALSE
    /\ UNCHANGED <<engine, backend, controller, tasks, arg, agentVars, mem, step,
                   browser, decisions, scrollCalls, captureFailed>>

\* while self.current_step <= self.max_steps, and the return after the loop
LoopTest ==
    /\ engine = "wba"
    /\ pc = "loop"
    /\ out' = out
    /\ UNCHANGED <<captures, dispatches, notesSeen>>
    /\ IF current_step <= max_steps
       THEN /\ pc' = "shot"
            /\ result' = result
       ELSE /\ pc' = "done"
            /\ result' = Result("dict", "max_steps_reached",
                                {"status", "message", "final_answer", "total_steps"},
                                "", task_notes, current_step - 1, 0)
    /\ stepCalls' = <<>>
    /\ located' = <<>>
    /\ shot' = "none"
    /\ NoDecision
    /\ dispatchRaised' = FALSE
    /\ UNCHANGED <<engine, backend, controller, tasks, arg, agentVars, mem, step,
                   browser, decisions, scrollCalls, captureFailed>>

\* browser_controller.get_screenshot().  A generic controller raises on failure
\* and run_task does not catch it.  PlaywrightBrowserController catches the
\* failure and builds a blank image; Image.new is handed a dict view as size,
\* which the imaging library may accept or reject with an exception.
GetScreenshot(how) ==
    /\ engine = "wba"
    /\ pc = "shot"
    /\ out' = out
    /\ captures' = captures + 1
    /\ UNCHANGED <<dispatches, notesSeen>>
    /\ how \in (IF backend = "generic" THEN {"ok", "raised"} ELSE {"ok", "blank", "raised"})
    /\ shot' = how
    /\ captureFailed' = (captureFailed \/ how # "ok")
    /\ IF how = "raised"
       THEN pc' = "done" /\ result' = Escaped
       ELSE pc' = "decide" /\ result' = result
    /\ UNCHANGED <<engine, backend, controller, tasks, arg, agentVars, mem, step, decideVars,
                   browser, decisions, scrollCalls, stepCalls, located, dispatchRaised>>

\* execute_step up to the dispatch: navigate(), which adds a non-blank note of
\* a parsed step to task_notes, and the step log appended to memory
NavigateEffect(o) ==
    LET t == NavigateTry(RunInference(o))
        r == Navigate(o)
    IN /\ resp' = o
       /\ tried' = t
       /\ thrown' = r.exc
       /\ nav_step' = r.step
       /\ task_notes' = IF t.exc = "" /\ ~Blank(t.step.note)
                        THEN Append(task_notes, [step |-> current_step, note |-> t.step.note])
                        ELSE task_notes

NavigateStep(o) ==
    /\ engine = "wba"
    /\ pc = "decide"
    /\ out' = out
    /\ notesSeen' = IF NavigateTry(RunInference(o)).exc = ""
                        /\ ~Blank(NavigateTry(RunInference(o)).step.note)
                     THEN Append(notesSeen, NavigateTry(RunInference(o)).step.note)
                     ELSE notesSeen
    /\ UNCHANGED <<captures, dispatches>>
    /\ decisions < MaxDecisions
    /\ NavigateEffect(o)
    \* navigate is called outside the try of execute_step
    /\ IF Navigate(o).exc # ""
       THEN pc' = "done" /\ result' = Escaped /\ memory' = memory
       ELSE /\ pc' = "dispatch"
            /\ result' = result
            /\ memory' = Append(memory, [step |-> current_step,
                                         thought |-> Navigate(o).step.thought])
    /\ decisions' = decisions + 1
    /\ UNCHANGED <<engine, backend, controller, tasks, arg, max_steps, current_step, scroll_count, mem,
                   step, browser, scrollCalls, stepCalls, located, shot, captureFailed,
                   dispatchRaised>>

\* _execute_action: the controller calls an action makes, in order, when none
\* of them raises; sc is scroll_count before the action
ExecPlan(a, sc) ==
    CASE a.action = "click_element" -> <<Call("click", a.x, a.y, "")>>
      [] a.action = "write_element_abs" ->
           <<Call("click", a.x, a.y, ""), Call("type_text", 0, 0, a.content)>>
      [] a.action = "scroll" ->
           IF sc + 1 > ScrollLimit THEN <<>> ELSE <<Call("scroll", 0, 0, a.direction)>>
      [] a.action = "go_back" -> <<Call("go_back", 0, 0, "")>>
      [] a.action = "refresh" -> <<Call("refresh", 0, 0, "")>>
      [] a.action = "goto" -> <<Call("goto", 0, 0, a.url)>>
      [] a.action = "restart" -> <<Call("restart", 0, 0, "")>>
      [] OTHER -> <<>>

\* A failing call of a generic controller raises.  PlaywrightBrowserController
\* catches the failure inside click, type_text, scroll, go_back, refresh and
\* goto; its restart (cleanup, initialize) lets a failed initialize out.
CallRaises(b, c) == b = "generic" \/ c.op = "restart"

\* PlaywrightBrowserController.goto prefixes https:// to a url without scheme
ControllerUrl(b, url) ==
    IF b = "playwright" /\ ~HasScheme(url) THEN WithHttps(url) ELSE url

CountOp(cs, op) == Cardinality({i \in 1..Len(cs) : cs[i].op = op})

\* execute_step from the dispatch on: _execute_action inside try, the step
\* counter, the answer check, the except clause.  f is the call that fails
\* (0: none).
Dispatch(f) ==
    /\ engine = "wba"
    /\ pc = "dispatch"
    /\ out' = out
    /\ dispatches' = dispatches + 1
    /\ UNCHANGED <<captures, notesSeen>>
    /\ LET a == nav_step.action
           plan == ExecPlan(a, scroll_count)
       IN /\ f \in 0..Len(plan)
          /\ LET raises == f > 0 /\ CallRaises(backend, plan[f])
                 issued == IF raises THEN SubSeq(plan, 1, f) ELSE plan
                 \* self.reset() comes before browser_controller.restart()
                 cs0 == IF a.action = "restart" THEN 1 ELSE current_step
                 cs1 == IF raises THEN cs0 ELSE cs0 + 1
             IN /\ stepCalls' = issued
                \* _execute_action never calls localize_element
                /\ located' = <<>>
                /\ scrollCalls' = scrollCalls + CountOp(issued, "scroll")
                /\ scroll_count' = CASE a.action = "restart" -> 0
                                     [] a.action = "scroll" -> scroll_count + 1
                                     [] OTHER -> scroll_count
                /\ memory' = IF a.action = "restart" THEN <<>> ELSE memory
                /\ task_notes' = IF a.action = "restart" THEN <<>> ELSE task_notes
                /\ current_step' = cs1
                /\ dispatchRaised' = raises
                /\ IF raises
                   THEN /\ pc' = "done"
                        /\ result' = Result("dict", "error", {"status", "message", "step"},
                                            "", <<>>, 0, cs1)
                   ELSE IF a.action = "answer"
                   THEN /\ pc' = "done"
                        /\ result' = Result("dict", "completed",
                                            {"status", "message", "final_answer", "total_steps"},
                                            a.content, <<>>, cs1 - 1, 0)
                   ELSE /\ pc' = "loop"
                        /\ result' = result
    /\ UNCHANGED <<engine, backend, controller, tasks, arg, max_steps, mem, step, decideVars,
                   browser, decisions, shot, captureFailed>>

(***************************************************************************)
(* WebNavigationAgent.run_task                                             *)
(***************************************************************************)
\* what Holo1Localizer.localize_element gives execute_action: coordinates, or
\* an exception
LocResults == {[ok |-> FALSE, x |-> 0, y |-> 0], [ok |-> TRUE, x |-> 2, y |-> 3]}

\* window.scrollBy(dx, dy)
ScrollBy(direction) ==
    CASE direction = "down" -> Call("scroll", 0, 500, direction)
      [] direction = "up" -> Call("scroll", 0, -500, direction)
      [] direction = "right" -> Call("scroll", 500, 0, direction)
      [] direction = "left" -> Call("scroll", -500, 0, direction)

\* execute_action: the driver calls an action makes, in order, when none of
\* them raises; loc is what the localizer returned for a click or a write.
\* asyncio.sleep only creates a coroutine, so wait makes no call.
SeleniumPlan(a, loc) ==
    CASE a.action = "click_element" ->
           <<Call("move_click", loc.x, loc.y, ""), Call("move", -loc.x, -loc.y, "")>>
      [] a.action = "write_element_abs" ->
           <<Call("move_click", loc.x, loc.y, ""), Call("send_keys", 0, 0, a.content),
             Call("move", -loc.x, -loc.y, "")>>
      [] a.action = "scroll" -> <<ScrollBy(a.direction)>>
      [] a.action = "goto" -> <<Call("goto", 0, 0, a.url)>>
      [] a.action = "go_back" -> <<Call("go_back", 0, 0, "")>>
      [] a.action = "refresh" -> <<Call("refresh", 0, 0, "")>>
      [] OTHER -> <<>>

NeedsLocalizer(a) == a.action \in {"click_element", "write_element_abs"}

\* run_task up to the loop: a fresh AgentMemory, driver.get(starting_url),
\* which run_task does not guard
SeleniumRunTask(n, ok) ==
    /\ engine = "sel"
    /\ pc \in {"idle", "done"}
    /\ tasks < MaxTasks
    /\ tasks' = tasks + 1
    /\ arg' = n
    /\ step' = 0
    /\ IF ok
       THEN /\ browser' = [browser EXCEPT !.page = "start"]
            /\ mem' = [AgentMemory EXCEPT !.current_url = "start"]
            /\ pc' = "loop"
            /\ result' = NoResult
       ELSE /\ browser' = browser
            /\ mem' = AgentMemory
            /\ pc' = "done"
            /\ result' = Escaped
    /\ NewTask
    /\ UNCHANGED <<engine, backend, controller, agentVars>>

\* for step in range(max_steps): memory.step_count = step + 1; after the loop
\* the forced completion message
SeleniumLoop ==
    /\ engine = "sel"
    /\ pc = "loop"
    /\ out' = out
    /\ UNCHANGED <<captures, dispatches, notesSeen>>
    /\ IF step < arg
       THEN /\ step' = step + 1
            /\ mem' = [mem EXCEPT !.step_count = step + 1]
            /\ pc' = "shot"
            /\ result' = result
       ELSE /\ step' = step
            /\ mem' = mem
            /\ pc' = "done"
            /\ result' = Result("str", "", {}, LimitMessage, <<>>, 0, 0)
    /\ stepCalls' = <<>>
    /\ located' = <<>>
    /\ shot' = "none"
    /\ NoDecision
    /\ dispatchRaised' = FALSE
    /\ UNCHANGED <<engine, backend, controller, tasks, arg, agentVars, browser, decisions,
                   scrollCalls, captureFailed>>

\* take_screenshot(), outside the try of the loop, and screenshots.append
TakeScreenshot(ok) ==
    /\ engine = "sel"
    /\ pc = "shot"
    /\ out' = out
    /\ captures' = captures + 1
    /\ UNCHANGED <<dispatches, notesSeen>>
    /\ shot' = IF ok THEN "ok" ELSE "raised"
    /\ captureFailed' = (captureFailed \/ ~ok)
    /\ IF ok
       THEN /\ mem' = [mem EXCEPT !.screenshots = Append(@, step)]
            /\ pc' = "decide"
            /\ result' = result
       ELSE /\ mem' = mem
            /\ pc' = "done"
            /\ result' = Escaped
    /\ UNCHANGED <<engine, backend, controller, tasks, arg, agentVars, step, decideVars, browser,
                   decisions, scrollCalls, stepCalls, located, dispatchRaised>>

\* navigator.decide_next_action(task, screenshot_image, memory)
DecideEffect(o) ==
    LET r == DecideNextAction(o)
    IN /\ resp' = o
       /\ tried' = DecideTry(o)
       /\ thrown' = r.exc
       /\ nav_step' = r.step

Decide(o) ==
    /\ engine = "sel"
    /\ pc = "decide"
    /\ out' = out
    /\ notesSeen' = IF DecideTry(o).exc = "" /\ ~Blank(DecideTry(o).step.note)
                     THEN Append(notesSeen, DecideTry(o).step.note)
                     ELSE notesSeen
    /\ UNCHANGED <<captures, dispatches>>
    /\ DecideEffect(o)
    \* an exception of the decider is caught by the try of the loop
    /\ pc' = IF DecideNextAction(o).exc # "" THEN "loop" ELSE "dispatch"
    /\ decisions' = decisions + 1
    /\ UNCHANGED <<engine, backend, controller, tasks, arg, agentVars, mem, step, result, browser,
                   scrollCalls, stepCalls, located, shot, captureFailed, dispatchRaised>>

\* the rest of the try of the loop: the answer check, execute_action,
\* actions.append, and `except: continue`.  loc is the localizer's result, f the
\* driver call that raises (0: none), nav whether a click leads to another page.
SeleniumExecute(loc, f, nav) ==
    /\ engine = "sel"
    /\ pc = "dispatch"
    /\ out' = out
    /\ dispatches' = dispatches + 1
    /\ UNCHANGED <<captures, notesSeen>>
    /\ LET a == nav_step.action
           plan == SeleniumPlan(a, loc)
       IN IF a.action = "answer"
          THEN /\ loc = [ok |-> TRUE, x |-> 2, y |-> 3] /\ f = 0 /\ ~nav
               /\ pc' = "done"
               /\ result' = Result("str", "", {}, a.content, <<>>, 0, 0)
               /\ UNCHANGED <<mem, browser, stepCalls, located, scrollCalls, dispatchRaised>>
          ELSE /\ NeedsLocalizer(a) \/ loc = [ok |-> TRUE, x |-> 2, y |-> 3]
               /\ NeedsLocalizer(a) \/ ~nav
               /\ f \in 0..Len(plan)
               /\ ~loc.ok => f = 0
               /\ LET locRaised == NeedsLocalizer(a) /\ ~loc.ok
                      raises == locRaised \/ f > 0
                      issued == IF locRaised THEN <<>>
                                ELSE IF f > 0 THEN SubSeq(plan, 1, f) ELSE plan
                      done == IF locRaised THEN <<>>
                              ELSE IF f > 0 THEN SubSeq(plan, 1, f - 1) ELSE plan
                      b == ApplyCalls(browser, done, nav)
                  IN /\ stepCalls' = issued
                     /\ located' = IF NeedsLocalizer(a)
                                   THEN <<[element |-> a.element, loc |-> loc]>>
                                   ELSE <<>>
                     /\ scrollCalls' = scrollCalls + CountOp(issued, "scroll")
                     /\ browser' = b
                     /\ dispatchRaised' = raises
                     /\ mem' = IF raises THEN mem
                               ELSE [mem EXCEPT !.current_url = b.page,
                                                !.actions = Append(@, nav_step)]
               /\ pc' = "loop"
               /\ result' = result
    /\ UNCHANGED <<engine, backend, controller, tasks, arg, agentVars, step, decideVars,
                   decisions, shot, captureFailed>>

(***************************************************************************)
(* The deciders alone, over a larger set of model outcomes.                *)
(***************************************************************************)
\* an action object holding every member, each with a value its variant accepts
FullPayload(tag) ==
    Payload(tag, Some(JStr("btn")), Some(JStr("42")), Some(JInt(1)), Some(JInt(1)),
            Some(JStr("down")), Some(JStr("a.com")), Some(JInt(2)))

TagValues == {Absent, Some(JNull)} \cup
             {Some(JStr(t)) : t \in ActionTags \cup {"restart", "fly", "click"}}
SecondsValues == {Absent, Some(JNull), Some(JFrac), Some(JStr("15")), Some(JStr("7")),
                  Some(JStr("soon"))} \cup {Some(JInt(n)) : n \in {-1, 0, 10, 11, 15}}

\* serialized actions: one member changed or left out
Payloads ==
    UNION { { FullPayload(tag) }
            \cup { [FullPayload(tag) EXCEPT !.seconds = v] : v \in SecondsValues }
            \cup { [FullPayload(tag) EXCEPT !.content = v] : v \in {Absent, Some(JInt(1))} }
            \cup { [FullPayload(tag) EXCEPT !.element = v] : v \in {Absent, Some(JNull)} }
            \cup { [FullPayload(tag) EXCEPT !.x = v] : v \in {Absent, Some(JStr("7")), Some(JFrac)} }
            \cup { [FullPayload(tag) EXCEPT !.direction = v] :
                       v \in {Absent, Some(JStr("up")), Some(JStr("sideways"))} }
            \cup { [FullPayload(tag) EXCEPT !.url = v] :
                       v \in {Absent, Some(JStr("https://a.com")), Some(JInt(1))} }
          : tag \in TagValues }

StepPayloads ==
    { StepPayload(k, Absent, Absent, "absent", EmptyPayload) : k \in {"null", "list"} }
    \cup { StepPayload("obj", note, thought, "obj", a) :
             note \in {Absent, Some(JStr("n1"))},
             thought \in {Absent, Some(JStr("t"))},
             a \in Payloads }
    \cup { StepPayload("obj", Some(JNull), Some(JStr("t")), "obj", PScroll),
           StepPayload("obj", Absent, Some(JInt(1)), "obj", PScroll) }
    \cup { StepPayload("obj", Absent, Some(JStr("t")), actk, EmptyPayload) :
             actk \in {"absent", "nonobj"} }

Bodies == { Body("empty", NoValue), Body("garbage", NoValue) }
          \cup { Body("json", v) : v \in StepPayloads }

FullResponses ==
    { Outcome(TRUE, EmptyText) }
    \cup { Outcome(FALSE, Text(fence, b)) : fence \in {"none", "json", "plain"}, b \in Bodies }
    \cup Responses

\* a decider is about to be called on one model outcome
DecideInit ==
    /\ engine \in {"wba", "sel"}
    /\ backend = "generic"
    /\ pc = "asked"
    /\ resp \in FullResponses
    /\ Constructed

\* WebBrowsingAgent.navigate on that outcome
NavigateCall ==
    /\ engine = "wba"
    /\ pc = "asked"
    /\ out' = out
    /\ NavigateEffect(resp)
    /\ pc' = "returned"
    /\ UNCHANGED <<engine, backend, controller, tasks, arg, max_steps, current_step, memory,
                   scroll_count, mem, step, result, browser, obsVars>>

\* Holo1Navigator.decide_next_action on that outcome
DecideCall ==
    /\ engine = "sel"
    /\ pc = "asked"
    /\ out' = out
    /\ DecideEffect(resp)
    /\ pc' = "returned"
    /\ UNCHANGED <<engine, backend, controller, tasks, arg, agentVars, mem, step, result, browser,
                   obsVars>>

DecideNext == NavigateCall \/ DecideCall

(***************************************************************************)
(* Specifications: one per engine, and both engines together.              *)
(***************************************************************************)
BrowsingNext ==
    \/ \E n \in 0..MaxSteps : RunTask(n)
    \/ LoopTest
    \/ \E how \in {"ok", "blank", "raised"} : GetScreenshot(how)
    \/ \E o \in Responses : NavigateStep(o)
    \/ \E f \in 0..2 : Dispatch(f)

SeleniumNext ==
    \/ \E n \in 0..MaxSteps, ok \in BOOLEAN : SeleniumRunTask(n, ok)
    \/ SeleniumLoop
    \/ \E ok \in BOOLEAN : TakeScreenshot(ok)
    \/ \E o \in Responses : Decide(o)
    \/ \E loc \in LocResults, f \in 0..3, nav \in BOOLEAN : SeleniumExecute(loc, f, nav)

Next == BrowsingNext \/ SeleniumNext

Spec == Init /\ [][Next]_vars
\* a WebBrowsingAgent alone, a WebNavigationAgent alone
InitBrowsing == Init /\ engine = "wba"
InitSelenium == Init /\ engine = "sel"
SpecBrowsing == InitBrowsing /\ [][BrowsingNext]_vars
SpecSelenium == InitSelenium /\ [][SeleniumNext]_vars
SpecDecide == DecideInit /\ [][DecideNext]_vars

(***************************************************************************)
(* The history shown to the model, called on a memory of recorded steps.   *)
(***************************************************************************)
\* s[-k:]
Slice_First(s, k) == SubSeq(s, 1, IF Len(s) > k THEN k ELSE Len(s))
Slice(s, k) == SubSeq(s, IF Len(s) > k THEN Len(s) - k + 1 ELSE 1, Len(s))

\* Holo1Navigator._build_history_context: the marker, or for each of the last
\* 3 actions its label, thought, action tag and, if the note is not empty, note
BuildHistoryContext(actions) ==
    IF actions = <<>> THEN [kind |-> "No previous actions", parts |-> <<>>]
    ELSE LET recent == Slice(actions, HistoryWindow)
         IN [kind |-> "steps",
             parts |-> [i \in 1..Len(recent) |->
                          [idx |-> Len(actions) - 3 + (i - 1) + 1,
                           thought |-> recent[i].thought,
                           action |-> recent[i].action.action,
                           note |-> IF recent[i].note # "" THEN <<recent[i].note>> ELSE <<>>]]]

\* WebBrowsingAgent.navigate: `if self.memory:` a <memory> block of the last 5
\* step logs, labelled from 1; no block otherwise
MemoryContext(log) ==
    IF log = <<>> THEN [kind |-> "none", parts |-> <<>>]
    ELSE LET recent == Slice(log, MemoryWindow)
         IN [kind |-> "steps",
             parts |-> [i \in 1..Len(recent) |->
                          [idx |-> i, step |-> recent[i].step, thought |-> recent[i].thought]]]

SeqsUpTo(S, n) == UNION {[1..k -> S] : k \in 0..n}
HistorySteps == {NavigationStep("", "t1", ScrollAction("down")),
                 NavigationStep("n1", "t2", GoBackAction),
                 NavigationStep(" ", "t3", WaitAction(2))}
StepLogs(n) == {[i \in 1..Len(th) |-> [step |-> i, thought |-> th[i]]] :
                   th \in SeqsUpTo({"t1", "t2"}, n)}

\* a memory of up to MaxHistory recorded steps
HistoryInit ==
    /\ engine \in {"wba", "sel"}
    /\ backend = "generic"
    /\ controller = NoController
    /\ pc = "recorded"
    /\ resp = NoOutcome
    /\ tasks = 0
    /\ arg = 0
    /\ max_steps = DefaultMaxSteps
    /\ task_notes = <<>>
    /\ scroll_count = 0
    /\ IF engine = "wba"
       THEN /\ memory \in StepLogs(MaxHistory)
            /\ current_step = Len(memory) + 1
            /\ mem = AgentMemory
       ELSE /\ memory = <<>>
            /\ current_step = 1
            /\ mem \in {[AgentMemory EXCEPT !.actions = a] : a \in SeqsUpTo(HistorySteps, MaxHistory)}
    /\ step = 0
    /\ tried = Returned(NoStep)
    /\ thrown = ""
    /\ nav_step = NoStep
    /\ result = NoResult
    /\ browser = [page |-> "blank", px |-> 0, py |-> 0]
    /\ decisions = 0
    /\ scrollCalls = 0
    /\ stepCalls = <<>>
    /\ located = <<>>
    /\ shot = "none"
    /\ captureFailed = FALSE
    /\ dispatchRaised = FALSE
    /\ captures = 0
    /\ dispatches = 0
    /\ notesSeen = <<>>
    /\ out = NoReturn

\* _build_history_context(memory)
BuildHistoryCall ==
    /\ engine = "sel"
    /\ pc = "recorded"
    /\ out' = BuildHistoryContext(mem.actions)
    /\ pc' = "rendered"
    /\ UNCHANGED <<engine, backend, controller, tasks, arg, agentVars, mem, step, decideVars, result,
                   browser, decisions, scrollCalls, stepCalls, located, shot, captureFailed,
                   dispatchRaised, captures, dispatches, notesSeen>>

\* the memory context navigate() builds
MemoryContextCall ==
    /\ engine = "wba"
    /\ pc = "recorded"
    /\ out' = MemoryContext(memory)
    /\ pc' = "rendered"
    /\ UNCHANGED <<engine, backend, controller, tasks, arg, agentVars, mem, step, decideVars, result,
                   browser, decisions, scrollCalls, stepCalls, located, shot, captureFailed,
                   dispatchRaised, captures, dispatches, notesSeen>>

HistoryNext == BuildHistoryCall \/ MemoryContextCall
SpecHistory == HistoryInit /\ [][HistoryNext]_vars

(***************************************************************************)
(* Holo1Localizer.localize_element, called on one model response.          *)
(***************************************************************************)
\* A response text, as far as localize_element reads it: json is what
\* json.loads makes of the whole text ("invalid": it raises JSONDecodeError),
\* x and y the members of a JSON object, frags the pieces of the text in order,
\* click the comma-separated pieces between "Click(" and ")" (<<>>: no "Click(").
LocText(json, x, y, frags, click) ==
    [json |-> json, x |-> x, y |-> y, frags |-> frags, click |-> click]
\* a piece of text: pat tells its form, xs and ys are its two digit strings
\*   "xy"       "x": 120, "y": 340        "xy_tight"  "x":120,"y":340
\*   "yx"       "y": 340, "x": 120        "x_only"    "x": 120
\*   "neg"      "x": -120, "y": 340       "quote"     'x': 120, 'y': 340
\*   "prose"    other text
Frag(pat, xs, ys) == [pat |-> pat, xs |-> xs, ys |-> ys]
DigitStrings == {"120", "007"}
\* int(match.group(n))
IntOfDigits(d) == CASE d = "120" -> 120 [] d = "007" -> 7 [] d = "340" -> 340 [] OTHER -> 0

\* the pattern matches only with blanks around the colons and the comma
Matches_Tight(frag) == frag.pat = "xy_tight"
\* re.search(r'"x":\s*(\d+),\s*"y":\s*(\d+)', ...) matches inside this piece
Matches(frag) == frag.pat \in {"xy", "xy_tight"}
\* the first match, as a sequence of length 0 or 1
RECURSIVE RegexSearch(_)
RegexSearch(frags) ==
    IF frags = <<>> THEN <<>>
    ELSE IF Matches(Head(frags)) THEN <<Head(frags)>>
    ELSE RegexSearch(Tail(frags))

\* what localize_element gives its caller
Coords(x, y) == [kind |-> "coords", x |-> x, y |-> y]
\* text: the message of the exception holds the whole response
LocRaise(exc, text) == [kind |-> "raise", exc |-> exc, text |-> text]

\* int(piece) of the textual format: blanks around the digits are accepted
IntPieces == {"12", " 34"}
IntOfPiece(piece) == CASE piece = "12" -> 12 [] piece = " 34" -> 34 [] OTHER -> 0

\* localize_element; the outer `except Exception` logs and re-raises
LocalizeElement(call) ==
    LET t == call.text IN
    IF call.raised THEN LocRaise("InferenceError", FALSE)
    ELSE IF call.structured
    THEN CASE t.json = "invalid" ->
                LET m == RegexSearch(t.frags) IN
                IF m # <<>>
                THEN Coords(JInt(IntOfDigits(m[1].xs)), JInt(IntOfDigits(m[1].ys)))
                ELSE LocRaise("ValueError", TRUE)
           [] t.json = "obj" ->
                IF t.x = Absent \/ t.y = Absent THEN LocRaise("KeyError", FALSE)
                ELSE Coords(t.x[1], t.y[1])
           [] OTHER -> LocRaise("TypeError", FALSE)
    ELSE IF t.click = <<>> THEN LocRaise("ValueError", TRUE)
    ELSE LET pieces == t.click[1] IN
         IF Len(pieces) = 2 /\ pieces[1] \in IntPieces /\ pieces[2] \in IntPieces
         THEN Coords(JInt(IntOfPiece(pieces[1])), JInt(IntOfPiece(pieces[2])))
         ELSE LocRaise("ValueError", FALSE)

Frags == {Frag(p, a, b) : p \in {"xy", "xy_tight"}, a \in DigitStrings, b \in {"340"}}
         \cup {Frag(p, "120", "340") : p \in {"yx", "x_only", "neg", "quote", "prose"}}
LocTexts ==
    {LocText("invalid", Absent, Absent, f, <<>>) : f \in SeqsUpTo(Frags, MaxFrags)}
    \cup {LocText("obj", x, y, <<>>, <<>>) :
            x \in {Absent, Some(JInt(120)), Some(JStr("120")), Some(JFrac)},
            y \in {Absent, Some(JInt(340)), Some(JNull)}}
    \cup {LocText(k, Absent, Absent, <<>>, <<>>) : k \in {"list", "null", "number", "string"}}
    \cup {LocText("invalid", Absent, Absent, <<Frag("prose", "120", "340")>>, <<c>>) :
            c \in {<<"12", " 34">>, <<"12">>, <<"12", " 34", "12">>, <<"a", "b">>,
                   <<"1.5", "12">>, <<"">>}}
LocCalls ==
    {[structured |-> m, raised |-> FALSE, text |-> t] : m \in BOOLEAN, t \in LocTexts}
    \cup {[structured |-> m, raised |-> TRUE, text |-> LocText("invalid", Absent, Absent, <<>>, <<>>)] :
            m \in BOOLEAN}

\* the localizer is about to be called on one model outcome
LocalizeInit ==
    /\ engine = "sel"
    /\ backend = "generic"
    /\ pc = "asked"
    /\ resp \in LocCalls
    /\ Constructed

LocalizeCall ==
    /\ pc = "asked"
    /\ out' = LocalizeElement(resp)
    /\ pc' = "localized"
    /\ UNCHANGED <<engine, backend, controller, tasks, arg, agentVars, mem, step, decideVars, result,
                   browser, decisions, scrollCalls, stepCalls, located, shot, captureFailed,
                   dispatchRaised, captures, dispatches, notesSeen>>

SpecLocalize == LocalizeInit /\ [][LocalizeCall]_vars

(***************************************************************************)
(* DebugWebBrowsingAgent._execute_action, called on one action.           *)
(***************************************************************************)
\* the controller calls the debug agent makes for an action, in order, when
\* none of them raises; it has no branch for go_back, refresh, goto, restart
DebugPlan(a, sc) ==
    CASE a.action = "click_element" -> <<Call("click", a.x, a.y, "")>>
      [] a.action = "write_element_abs" -> <<Call("click", a.x, a.y, "")>>
      [] a.action = "scroll" ->
           IF sc + 1 > ScrollLimit THEN <<>> ELSE <<Call("scroll", 0, 0, a.direction)>>
      [] OTHER -> <<>>

\* `import time` in the wait branch makes `time` a local name of the whole
\* function: time.sleep(0.5) after the click of the write branch raises
\* UnboundLocalError, before type_text
DebugUnbound(a) == a.action = "write_element_abs"

\* what _execute_action returns when nothing raises
DebugMessage(a, sc) ==
    CASE a.action \in {"click_element", "write_element_abs", "wait", "answer"} -> "done"
      [] a.action = "scroll" -> IF sc + 1 > ScrollLimit THEN "skipped" ELSE "done"
      [] OTHER -> "unknown"

Returns(msg) == [kind |-> "return", parts |-> <<msg>>]
Raises(exc) == [kind |-> "raise", parts |-> <<exc>>]

\* the actions a decider can hand to dispatch
DispatchActions ==
    { ClickElementAction("btn", 1, 1), WriteElementAction("hi", "box", 1, 1),
      ScrollAction("down"), ScrollAction("up"), GoBackAction, RefreshAction,
      GotoAction("a.com"), GotoAction("https://a.com"), WaitAction(2), WaitAction(10),
      AnswerAction("42"), RestartAction }

\* the debug agent is about to dispatch one action
DebugInit ==
    /\ engine = "dbg"
    /\ backend \in {"generic", "playwright"}
    /\ controller = NoController
    /\ pc = "dispatch"
    /\ resp = NoOutcome
    /\ tasks = 1
    /\ arg = 0
    /\ max_steps = DefaultMaxSteps
    /\ current_step = 1
    /\ memory = <<>>
    /\ task_notes = <<>>
    /\ scroll_count \in 0..(ScrollLimit + 1)
    /\ mem = AgentMemory
    /\ step = 0
    /\ tried = Returned(NoStep)
    /\ thrown = ""
    /\ nav_step \in {NavigationStep("", "t", a) : a \in DispatchActions}
    /\ result = NoResult
    /\ browser = [page |-> "blank", px |-> 0, py |-> 0]
    /\ decisions = 1
    /\ scrollCalls = 0
    /\ stepCalls = <<>>
    /\ located = <<>>
    /\ shot = "ok"
    /\ captureFailed = FALSE
    /\ dispatchRaised = FALSE
    /\ captures = 1
    /\ dispatches = 0
    /\ notesSeen = <<>>
    /\ out = NoReturn

\* _execute_action(action, screenshot, browser_controller); f is the
\* controller call that fails (0: none).  Its except clause re-raises.
DebugExecuteAction(f) ==
    /\ engine = "dbg"
    /\ pc = "dispatch"
    /\ LET a == nav_step.action
           plan == DebugPlan(a, scroll_count)
       IN /\ f \in 0..Len(plan)
          /\ LET callRaised == f > 0 /\ CallRaises(backend, plan[f])
                 issued == IF callRaised THEN SubSeq(plan, 1, f) ELSE plan
             IN /\ stepCalls' = issued
                /\ scrollCalls' = scrollCalls + CountOp(issued, "scroll")
                /\ scroll_count' = IF a.action = "scroll" THEN scroll_count + 1
                                   ELSE scroll_count
                /\ dispatchRaised' = (callRaised \/ DebugUnbound(a))
                /\ out' = IF callRaised THEN Raises("Exception")
                          ELSE IF DebugUnbound(a) THEN Raises("UnboundLocalError")
                          ELSE Returns(DebugMessage(a, scroll_count))
    /\ located' = <<>>
    /\ dispatches' = dispatches + 1
    /\ pc' = "executed"
    /\ UNCHANGED <<engine, backend, controller, tasks, arg, max_steps, current_step, memory, task_notes,
                   mem, step, decideVars, result, browser, decisions, shot, captureFailed,
                   captures, notesSeen>>

DebugNext == \E f \in 0..1 : DebugExecuteAction(f)
SpecDebug == DebugInit /\ [][DebugNext]_vars

(***************************************************************************)
(* A task interrupted from outside.                                        *)
(***************************************************************************)
\* run_task takes no cancellation token or flag; what reaches a running task
\* from outside is the interrupt signal, raised as KeyboardInterrupt in the
\* loop.  `except Exception` does not catch it, so it leaves run_task.
Interrupt ==
    /\ pc \in {"loop", "shot", "decide", "dispatch"}
    /\ thrown' = "KeyboardInterrupt"
    /\ pc' = "done"
    /\ result' = Escaped
    /\ UNCHANGED <<engine, backend, controller, tasks, arg, agentVars, mem, step, resp, tried, nav_step,
                   browser, obsVars, out>>

CancelNext == SeleniumNext \/ Interrupt
SpecCancel == InitSelenium /\ [][CancelNext]_vars

(***************************************************************************)
(* An action payload parsed and serialized again.                          *)
(***************************************************************************)
Members == {"action", "element", "content", "x", "y", "direction", "url", "seconds"}
\* the fields each variant of ActionSpace declares
Declared(tag) ==
    CASE tag = "click_element" -> {"action", "element", "x", "y"}
      [] tag = "write_element_abs" -> {"action", "content", "element", "x", "y"}
      [] tag = "scroll" -> {"action", "direction"}
      [] tag = "goto" -> {"action", "url"}
      [] tag = "wait" -> {"action", "seconds"}
      [] tag = "answer" -> {"action", "content"}
      [] OTHER -> {"action"}

\* a dump that leaves out the `element` field
ModelDump_NoElement(a) ==
    [m \in Members |->
        IF m \notin Declared(a.action) \/ m = "element" THEN Absent
        ELSE IF m \in {"x", "y", "seconds"} THEN Some(JInt(a[m])) ELSE Some(JStr(a[m]))]
\* the serialized form of a validated action: every declared field of its
\* variant, an int field as a number, a str field as a string
ModelDump(a) ==
    [m \in Members |->
        IF m \notin Declared(a.action) THEN Absent
        ELSE IF m \in {"x", "y", "seconds"} THEN Some(JInt(a[m])) ELSE Some(JStr(a[m]))]

\* payloads to parse: those of the decider specification, one payload per
\* variant holding exactly its declared fields, and payloads the parser
\* accepts through a default or a conversion
RoundTripPayloads ==
    Payloads
    \cup { PClick, PWrite, PScroll, Tagged("go_back"), Tagged("refresh"), PGoto,
           [PGoto EXCEPT !.url = Some(JStr("https://a.com"))],
           PWait(Some(JInt(0))), PWait(Some(JInt(10))), PAnswer }
    \cup { PWait(Absent), PWait(Some(JStr("7"))), [PAnswer EXCEPT !.action = Absent],
           [PClick EXCEPT !.x = Some(JStr("7"))], [PWrite EXCEPT !.y = Some(JStr("15"))],
           [PScroll EXCEPT !.url = Some(JStr("a.com"))] }

NoDump == Payload(Absent, Absent, Absent, Absent, Absent, Absent, Absent, Absent)
Trip(kind, payload, action, dumped) ==
    [kind |-> kind, payload |-> payload, action |-> action, dumped |-> dumped]

\* one payload is about to be validated
RoundTripInit ==
    /\ engine = "sel"
    /\ backend = "generic"
    /\ controller = NoController
    /\ pc = "payload"
    /\ resp = NoOutcome
    /\ tasks = 0
    /\ arg = 0
    /\ max_steps = DefaultMaxSteps
    /\ current_step = 1
    /\ memory = <<>>
    /\ task_notes = <<>>
    /\ scroll_count = 0
    /\ mem = AgentMemory
    /\ step = 0
    /\ tried = Returned(NoStep)
    /\ thrown = ""
    /\ nav_step = NoStep
    /\ result = NoResult
    /\ browser = [page |-> "blank", px |-> 0, py |-> 0]
    /\ decisions = 0
    /\ scrollCalls = 0
    /\ stepCalls = <<>>
    /\ located = <<>>
    /\ shot = "none"
    /\ captureFailed = FALSE
    /\ dispatchRaised = FALSE
    /\ captures = 0
    /\ dispatches = 0
    /\ notesSeen = <<>>
    /\ out \in {Trip("payload", p, NoAction, NoDump) : p \in RoundTripPayloads}

\* validation of the payload against ActionSpace
ValidateCall ==
    /\ pc = "payload"
    /\ LET r == ParseAction(out.payload)
       IN IF r.ok
          THEN /\ pc' = "parsed"
               /\ out' = Trip("parsed", out.payload, r.val, NoDump)
          ELSE /\ pc' = "rejected"
               /\ out' = Trip("rejected", out.payload, NoAction, NoDump)
    /\ UNCHANGED <<engine, backend, controller, tasks, arg, agentVars, mem, step, decideVars, result,
                   browser, obsVars>>

\* the validated action serialized again
DumpCall ==
    /\ pc = "parsed"
    /\ pc' = "dumped"
    /\ out' = Trip("dumped", out.payload, out.action, ModelDump(out.action))
    /\ UNCHANGED <<engine, backend, controller, tasks, arg, agentVars, mem, step, decideVars, result,
                   browser, obsVars>>

RoundTripNext == ValidateCall \/ DumpCall
SpecRoundTrip == RoundTripInit /\ [][RoundTripNext]_vars

(***************************************************************************)
(* PlaywrightBrowserController and PlaywrightWebAgent.run_task.            *)
(***************************************************************************)
\* a cleanup without the finally clause: a failing close leaves the handles
Cleanup_NoFinally(c, closeFails) == IF closeFails THEN c ELSE NoController
\* cleanup: the closes inside try, `except Exception` swallows a failure, the
\* finally clause clears the four handles and is_initialized
Cleanup(c, closeFails) ==
    [c EXCEPT !.page = FALSE, !.context = FALSE, !.browser = FALSE, !.playwright = FALSE,
              !.is_initialized = FALSE]

\* initialize.  fail is the statement that raises (0: none): 1 start of
\* playwright, 2 launch (or an unsupported browser type), 3 new_context,
\* 4 new_page, 5 set_default_timeout.  On a failure: cleanup, then re-raise.
Initialize(c, fail, closeFails) ==
    IF c.is_initialized THEN [ctl |-> c, raised |-> FALSE]
    ELSE LET reached == [c EXCEPT !.playwright = (fail = 0 \/ fail > 1) \/ @,
                                  !.browser = (fail = 0 \/ fail > 2) \/ @,
                                  !.context = (fail = 0 \/ fail > 3) \/ @,
                                  !.page = (fail = 0 \/ fail > 4) \/ @,
                                  !.is_initialized = (fail = 0)]
         IN IF fail = 0 THEN [ctl |-> reached, raised |-> FALSE]
            ELSE [ctl |-> Cleanup(reached, closeFails), raised |-> TRUE]

\* one call on the controller: initialize, cleanup, restart (cleanup, then
\* initialize) or an operation.  An operation lets a failed initialize out and
\* swallows its own failure.
ControllerCall(c, op, fail, closeFails) ==
    CASE op = "cleanup" -> [ctl |-> Cleanup(c, closeFails), raised |-> FALSE]
      [] op = "restart" -> Initialize(Cleanup(c, closeFails), fail, closeFails)
      [] OTHER -> Initialize(c, fail, closeFails)

\* a controller as constructed by PlaywrightWebAgent.__init__
PlaywrightInit ==
    /\ engine = "wba"
    /\ backend = "playwright"
    /\ pc = "idle"
    /\ resp = NoOutcome
    /\ Constructed

\* a call on the controller: by its owner outside a task, or by the agent
\* during agent.run_task, which calls the operations and restart only
CallController(op, fail, closeFails) ==
    /\ pc \in {"idle", "done", "agent"}
    /\ pc = "agent" => op \notin {"initialize", "cleanup"}
    /\ LET r == ControllerCall(controller, op, fail, closeFails)
       IN /\ controller' = r.ctl
          /\ out' = IF r.raised THEN Raises(op) ELSE Returns(op)
    /\ UNCHANGED <<engine, backend, pc, tasks, arg, agentVars, mem, step, decideVars, result,
                   browser, obsVars>>

\* the wrapper's error result and the results of agent.run_task
WrapperError == Result("dict", "error", {"status", "message", "error_type"}, "", <<>>, 0, 0)
AgentResults ==
    { Result("dict", "completed", {"status", "message", "final_answer", "total_steps"},
             "42", <<>>, 1, 0),
      Result("dict", "error", {"status", "message", "step"}, "", <<>>, 0, 1),
      Result("dict", "max_steps_reached",
             {"status", "message", "final_answer", "total_steps"}, "", <<>>, 1, 0),
      Escaped }

\* PlaywrightWebAgent.run_task up to agent.run_task: initialize, then goto,
\* wait_for_page_load and accept_cookies, which swallow their failures.  A
\* failed initialize goes to the except clause and to the cleanup of finally.
PlaywrightRunTask(fail, closeFails) ==
    /\ pc \in {"idle", "done"}
    /\ tasks < MaxTasks
    /\ tasks' = tasks + 1
    /\ LET r == Initialize(controller, fail, closeFails)
       IN IF r.raised
          THEN /\ controller' = Cleanup(r.ctl, closeFails)
               /\ result' = WrapperError
               /\ out' = Returns("run_task")
               /\ pc' = "done"
          ELSE /\ controller' = r.ctl
               /\ result' = NoResult
               /\ out' = Returns("initialize")
               /\ pc' = "agent"
    /\ UNCHANGED <<engine, backend, arg, agentVars, mem, step, decideVars, browser, obsVars>>

\* a wrapper without the finally clause: no cleanup after an exception
AgentEnds_NoFinally(r, closeFails) ==
    /\ pc = "agent"
    /\ pc' = "done"
    /\ result' = IF r.ret = "raise" THEN WrapperError ELSE r
    /\ controller' = IF r.ret = "raise" THEN controller ELSE Cleanup(controller, closeFails)
    /\ out' = Returns("run_task")
    /\ UNCHANGED <<engine, backend, tasks, arg, agentVars, mem, step, decideVars, browser,
                   obsVars>>

\* agent.run_task ends: its result is returned, or its exception is turned
\* into the error result; the finally clause cleans up
AgentEnds(r, closeFails) ==
    /\ pc = "agent"
    /\ pc' = "done"
    /\ result' = IF r.ret = "raise" THEN WrapperError ELSE r
    /\ controller' = Cleanup(controller, closeFails)
    /\ out' = Returns("run_task")
    /\ UNCHANGED <<engine, backend, tasks, arg, agentVars, mem, step, decideVars, browser,
                   obsVars>>

PlaywrightNext ==
    \* the operations start with `if not self.is_initialized: self.initialize()`
    \/ \E op \in {"initialize", "cleanup", "restart", "get_screenshot", "click", "type_text",
                  "press_key", "scroll", "go_back", "go_forward", "refresh", "goto"},
          fail \in 0..5, closeFails \in BOOLEAN : CallController(op, fail, closeFails)
    \/ \E fail \in 0..5, closeFails \in BOOLEAN : PlaywrightRunTask(fail, closeFails)
    \/ \E r \in AgentResults, closeFails \in BOOLEAN : AgentEnds(r, closeFails)
SpecPlaywright == PlaywrightInit /\ [][PlaywrightNext]_vars

(***************************************************************************)
(* Interactive mode: the 'task' and 'step' commands of interactive_mode,   *)
(* which call execute_step one step at a time without the while test of    *)
(* run_task.                                                               *)
(***************************************************************************)

\* the agent handed to interactive_mode: constructed, with the max_steps an
\* earlier run_task(n) left on it (reset does not touch max_steps)
InteractiveInit ==
    /\ engine = "wba"
    /\ backend \in {"generic", "playwright"}
    /\ pc = "prompt"
    /\ resp = NoOutcome
    /\ controller = NoController
    /\ tasks = 0
    /\ arg = 0
    /\ max_steps \in 1..MaxSteps
    /\ current_step = 1
    /\ memory = <<>>
    /\ task_notes = <<>>
    /\ scroll_count = 0
    /\ mem = AgentMemory
    /\ step = 0
    /\ tried = Returned(NoStep)
    /\ thrown = ""
    /\ nav_step = NoStep
    /\ result = NoResult
    /\ browser = [page |-> "blank", px |-> 0, py |-> 0]
    /\ decisions = 0
    /\ scrollCalls = 0
    /\ stepCalls = <<>>
    /\ located = <<>>
    /\ shot = "none"
    /\ captureFailed = FALSE
    /\ dispatchRaised = FALSE
    /\ captures = 0
    /\ dispatches = 0
    /\ notesSeen = <<>>
    /\ out = NoReturn

\* one command read at the prompt. 'task' sets current_task and resets the
\* agent ('reset' resets it the same way); 'step' is refused while no task
\* is set, else it captures the screenshot and calls execute_step, and an
\* exception of the capture is printed by the except clause of the loop
Command(c, how) ==
    /\ engine = "wba"
    /\ pc \in {"prompt", "loop", "done"}
    /\ IF c = "task"
       THEN /\ tasks < MaxTasks
            /\ tasks' = tasks + 1
            /\ current_step' = 1
            /\ memory' = <<>>
            /\ task_notes' = <<>>
            /\ scroll_count' = 0
            /\ result' = NoResult
            /\ pc' = "prompt"
            /\ NewTask
       ELSE /\ tasks > 0
            /\ captures <= MaxSteps
            /\ how \in (IF backend = "generic" THEN {"ok", "raised"}
                        ELSE {"ok", "blank", "raised"})
            /\ captures' = captures + 1
            /\ shot' = how
            /\ captureFailed' = (captureFailed \/ how # "ok")
            /\ pc' = IF how = "raised" THEN "prompt" ELSE "step"
            /\ result' = NoResult
            /\ stepCalls' = <<>>
            /\ located' = <<>>
            /\ dispatchRaised' = FALSE
            /\ NoDecision
            /\ UNCHANGED <<tasks, current_step, memory, task_notes, scroll_count,
                           decisions, scrollCalls, dispatches, notesSeen, out>>
    /\ UNCHANGED <<engine, backend, controller, arg, max_steps, mem, step, browser>>

\* execute_step without its guard: every call goes on to navigate
ExecuteStep_NoGuard ==
    /\ engine = "wba"
    /\ pc = "step"
    /\ pc' = "decide"
    /\ result' = result
    /\ UNCHANGED <<engine, backend, controller, tasks, arg, agentVars, mem, step, decideVars,
                   browser, obsVars, out>>

\* execute_step up to the call of navigate: beyond the budget it returns at
\* once, with task_notes as final_answer and no total_steps key
ExecuteStep ==
    /\ engine = "wba"
    /\ pc = "step"
    /\ IF current_step > max_steps
       THEN /\ pc' = "prompt"
            /\ result' = Result("dict", "max_steps_reached",
                                {"status", "message", "final_answer"},
                                "", task_notes, 0, 0)
       ELSE /\ pc' = "decide"
            /\ result' = result
    /\ UNCHANGED <<engine, backend, controller, tasks, arg, agentVars, mem, step, decideVars,
                   browser, obsVars, out>>

InteractiveNext ==
    \/ \E c \in {"task", "step"}, how \in {"ok", "blank", "raised"} : Command(c, how)
    \/ ExecuteStep
    \/ \E o \in Responses : NavigateStep(o)
    \/ \E f \in 0..2 : Dispatch(f)

SpecInteractive == InteractiveInit /\ [][InteractiveNext]_vars

(***************************************************************************)
(* Properties.                                                             *)
(***************************************************************************)
InTask == pc \in {"loop", "shot", "decide", "dispatch"}
\* the step budget of the running task
Budget == IF engine = "wba" THEN max_steps ELSE arg
Vocabulary == ActionTags \cup (IF engine = "wba" THEN {"restart"} ELSE {})
Fallback == IF engine = "wba" THEN NavFallback ELSE HoloFallback

UnknownTag(p) == p.action # Absent /\ TagOf(p) \notin Vocabulary
WaitOutOfRange(p) ==
    /\ TagOf(p) = "wait"
    /\ IsInt(p.seconds)
    /\ (AsInt(p.seconds) < 0 \/ AsInt(p.seconds) > 10)
IsJson(o) == ~o.raised /\ o.text.body.t = "json"
BadAction(o) ==
    /\ IsJson(o)
    /\ o.text.body.v.k = "obj"
    /\ o.text.body.v.actk = "obj"
    /\ (UnknownTag(o.text.body.v.act) \/ WaitOutOfRange(o.text.body.v.act))
MalformedOutcome(o) ==
    \/ o.raised
    \/ o.text.body.t \in {"empty", "garbage"}
    \/ /\ IsJson(o)
       /\ \/ o.text.body.v.k # "obj"
          \/ ~IsStr(o.text.body.v.thought)
          \/ o.text.body.v.actk # "obj"
    \/ BadAction(o)

C5_DispatchErrorNotFatal ==
    (dispatchRaised /\ (IF engine = "wba" THEN current_step < max_steps ELSE step < arg))
        => pc # "done"

C8_SchemaRejection ==
    pc = "returned"
        => /\ BadAction(resp) => (tried.exc # "" /\ tried.step = NoStep /\ nav_step = Fallback)
           /\ nav_step.action.action \in Vocabulary
           /\ nav_step.action.action = "wait"
                 => (nav_step.action.seconds >= 0 /\ nav_step.action.seconds <= 10)
C8_Witness ==
    /\ pc = "returned"
    /\ IsJson(resp)
    /\ TagOf(resp.text.body.v.act) = "wait"
    /\ resp.text.body.v.act.seconds = Some(JInt(15))
    /\ resp.text.fence = "none"
    /\ IsStr(resp.text.body.v.thought)
    /\ tried.exc = "ValidationError"
    /\ nav_step = Fallback

\* C9: when screenshot capture, decision or dispatch failed, what run_task
\* hands its caller is a dictionary with a status, not an exception
C9_StructuredFailure ==
    (pc = "done" /\ (captureFailed \/ dispatchRaised \/ thrown # ""))
        => (result.ret = "dict" /\ "status" \in result.keys)

IsPrefix(s, t) == Len(s) <= Len(t) /\ SubSeq(t, 1, Len(s)) = s
Last(s) == s[Len(s)]

\* C11: after the dispatch of a non-terminal step, raised or not, the step
\* history holds one entry per dispatched step and ends with that step
C11_AppendedRegardless ==
    (pc \in {"loop", "done"} /\ nav_step # NoStep /\ nav_step.action.action # "answer")
        => IF engine = "wba"
           THEN /\ Len(memory) = dispatches
                /\ Last(memory).thought = nav_step.thought
           ELSE /\ Len(mem.actions) = dispatches
                /\ Last(mem.actions) = nav_step

C13_DecideThenAct ==
    /\ dispatches <= decisions
    /\ decisions <= captures
    /\ captures <= dispatches + 1
    /\ stepCalls # <<>> => (nav_step # NoStep /\ shot \in {"ok", "blank"})
    /\ nav_step # NoStep => (shot \in {"ok", "blank"} /\ decisions = captures)
    /\ pc = "shot" => (captures = dispatches /\ nav_step = NoStep /\ stepCalls = <<>>)
C13_Witness ==
    /\ pc = "dispatch"
    /\ captures = 2
    /\ decisions = 2
    /\ dispatches = 1
    /\ nav_step.action.action = "click_element"

\* the step a response body encodes for the decider of this engine
Encoded(o) == IF engine = "wba" THEN NavParseStep(o.text.body.v) ELSE ParseStep(o.text.body.v)
ValidStepJson(o) == IsJson(o) /\ o.text.body.v.k = "obj" /\ Encoded(o).ok

\* C14: a valid NavigationStep payload wrapped in a ``` or ```json fence comes
\* back from the decider as the step it encodes, not as the fallback
C14_FenceStripped ==
    (pc = "returned" /\ ValidStepJson(resp) /\ resp.text.fence \in {"json", "plain"})
        => (tried.exc = "" /\ nav_step = Encoded(resp).val)

\* C15: the step a decider returns after a parse, validation or inference
\* failure has an empty note and the action wait with seconds = 2
C15_FallbackExact ==
    (pc = "returned" /\ tried.exc # "")
        => (nav_step.note = "" /\ nav_step.action = WaitAction(2))

\* run_task ended because the step budget ran out
Exhausted == pc = "done" /\ result.ret # "raise" /\ nav_step = NoStep
NotesOf(ns) == [i \in 1..Len(ns) |-> ns[i].note]

\* C16: when a budget of at least one step runs out, the final answer is made
\* of the non-blank notes of the steps parsed in this task, in step order, and
\* of nothing else
C16_NotesAsFinalAnswer ==
    (Exhausted /\ arg >= 1)
        => (result.final_answer = "" /\ NotesOf(result.notes) = notesSeen)

\* the recorded steps and the rendered ones, as (thought, tag, note) or log
Recorded == IF engine = "wba" THEN memory ELSE mem.actions
Window == IF engine = "wba" THEN MemoryWindow ELSE HistoryWindow
Min(a, b) == IF a <= b THEN a ELSE b
ShowsStep(part, rec) ==
    IF engine = "wba"
    THEN part.step = rec.step /\ part.thought = rec.thought
    ELSE /\ part.thought = rec.thought
         /\ part.action = rec.action.action
         /\ part.note = (IF rec.note # "" THEN <<rec.note>> ELSE <<>>)
\* the rendered history holds the last min(n, k) recorded steps, in order
ShowsLastSteps ==
    LET n == Len(Recorded)
        m == Min(n, Window)
    IN /\ Len(out.parts) = m
       /\ \A i \in 1..m : ShowsStep(out.parts[i], Recorded[n - m + i])

HoldsPattern(t) == t.json = "invalid" /\ \E i \in 1..Len(t.frags) : t.frags[i].pat = "xy"
\* i is the first place of the text where the pattern stands, blanks or not
FirstPattern(t, i) ==
    /\ i \in 1..Len(t.frags)
    /\ t.frags[i].pat \in {"xy", "xy_tight"}
    /\ \A j \in 1..(i - 1) : t.frags[j].pat \notin {"xy", "xy_tight"}

\* C18: in structured mode, on a response that is no valid JSON and holds the
\* pattern "x": <digits>, "y": <digits>, localize_element returns the two
\* numbers of the first place the pattern stands at, as integers
C18_LocalizationFallback ==
    (pc = "localized" /\ resp.structured /\ ~resp.raised /\ HoldsPattern(resp.text))
        => \E i \in 1..Len(resp.text.frags) :
              /\ FirstPattern(resp.text, i)
              /\ out = Coords(JInt(IntOfDigits(resp.text.frags[i].xs)),
                              JInt(IntOfDigits(resp.text.frags[i].ys)))
C18_Witness ==
    /\ pc = "localized"
    /\ resp.structured
    /\ resp.text.json = "invalid"
    /\ resp.text.frags = <<Frag("neg", "120", "340"), Frag("xy", "007", "340")>>
    /\ out = Coords(JInt(7), JInt(340))

\* C19: whenever a response yields no coordinates, what localize_element
\* raises is its own parse error (ValueError) holding the response text
C19_TypedLocalizationError ==
    (pc = "localized" /\ ~resp.raised /\ out.kind # "coords")
        => (out.kind = "raise" /\ out.exc = "ValueError" /\ out.text)

\* C20: Holo1Navigator rejects a payload whose action object carries no
\* `action` tag: no step is built from it and the decider hands out its
\* fallback, never an answer
C20_TaglessRejected ==
    (pc = "returned" /\ engine = "sel" /\ IsJson(resp) /\ resp.text.body.v.k = "obj"
       /\ resp.text.body.v.actk = "obj" /\ resp.text.body.v.act.action = Absent)
        => (tried.exc # "" /\ nav_step = Fallback /\ nav_step.action.action # "answer")

\* C21: the vocabulary's parser accepts a goto payload only if its url starts
\* with http:// or https://: a goto whose url lacks that prefix builds no step
\* and the decider hands out its fallback, and no step handed out is a goto
\* to a url without the prefix
C21_GotoPrefix ==
    (pc = "returned" /\ engine = "sel")
        => /\ (IsJson(resp) /\ resp.text.body.v.k = "obj" /\ resp.text.body.v.actk = "obj"
                  /\ TagOf(resp.text.body.v.act) = "goto"
                  /\ IsStr(resp.text.body.v.act.url)
                  /\ ~HasScheme(resp.text.body.v.act.url[1].s))
                 => (tried.exc # "" /\ tried.step = NoStep /\ nav_step = Fallback)
           /\ nav_step.action.action = "goto" => HasScheme(nav_step.action.url)

\* the url that reaches the browser's navigation for a goto call of the
\* engine: page.goto behind the controller, driver.get in WebNavigationAgent
HandedUrl(c) == IF engine = "wba" THEN ControllerUrl(backend, c.s) ELSE c.s

\* C22: for every dispatched goto the url handed to the browser's navigation
\* starts with http:// or https://: a url with such a prefix is handed over
\* unchanged, any other url prefixed with https://
C22_GotoNormalized ==
    \A i \in 1..Len(stepCalls) :
        stepCalls[i].op = "goto"
            => /\ HasScheme(HandedUrl(stepCalls[i]))
               /\ HandedUrl(stepCalls[i]) = IF HasScheme(stepCalls[i].s)
                                             THEN stepCalls[i].s
                                             ELSE WithHttps(stepCalls[i].s)

\* the dispatch of this step's action is over
Dispatched(tag) == pc \in {"loop", "done", "executed"} /\ nav_step.action.action = tag
IsClick(c) == c.op \in {"click", "move_click"}

\* C23: a dispatched click_element invokes the element localizer with the
\* action's element description, and the click is issued at the coordinates
\* the localizer resolved
C23_LocalizeBeforeClick ==
    Dispatched("click_element")
        => /\ Len(located) = 1
           /\ located[1].element = nav_step.action.element
           /\ \A i \in 1..Len(stepCalls) :
                 IsClick(stepCalls[i])
                     => (located[1].loc.ok /\ stepCalls[i].x = located[1].loc.x
                                           /\ stepCalls[i].y = located[1].loc.y)

IsType(c) == c.op \in {"type_text", "send_keys"}
\* the dispatch raised for a reason other than a failed backend call
RaisedByItself == out.kind = "raise" /\ out.parts = <<"UnboundLocalError">>
\* the i-th backend call of the step raised: it is the last call issued
CallFailed(i) == dispatchRaised /\ i = Len(stepCalls) /\ ~RaisedByItself

\* C24: in every engine variant a dispatched write_element_abs clicks the
\* target and then types: whenever the click succeeded, a type call with
\* exactly the action's content follows it in the same step
C24_WriteClicksThenTypes ==
    Dispatched("write_element_abs")
        => \A i \in 1..Len(stepCalls) :
              (IsClick(stepCalls[i]) /\ ~CallFailed(i))
                  => /\ i < Len(stepCalls)
                     /\ IsType(stepCalls[i + 1])
                     /\ stepCalls[i + 1].s = nav_step.action.content

\* a commit of what was typed: the Enter key sent to the browser
IsCommit(c) == c.op \in {"press_key", "send_keys"} /\ c.s = "Enter"

\* C25: a dispatched write_element_abs writes and then commits: after the
\* content keystrokes an Enter is sent to the browser in the same step
C25_WriteCommits ==
    (Dispatched("write_element_abs") /\ ~dispatchRaised)
        => \E i, j \in 1..Len(stepCalls) :
              /\ i < j
              /\ IsType(stepCalls[i]) /\ stepCalls[i].s = nav_step.action.content
              /\ IsCommit(stepCalls[j])

\* C26: in every engine variant a dispatched go_back, refresh or goto makes
\* exactly one call of the backend operation of that name (goto with the
\* action's url) and is not reported as an unknown action or skipped
C26_Forwarded ==
    \A tag \in {"go_back", "refresh", "goto"} :
        Dispatched(tag)
            => /\ Len(stepCalls) = 1
               /\ stepCalls[1].op = tag
               /\ tag = "goto" => stepCalls[1].s = nav_step.action.url
               /\ out # Returns("unknown")

\* C27: after every dispatch that does not end the task, raised or not, the
\* engine refreshes current_url from the browser: when a step starts, the
\* remembered current_url is the page the browser shows
C27_CurrentUrlFresh ==
    (engine = "sel" /\ pc = "shot") => mem.current_url = browser.page

\* C28: when a cancellation is requested from outside while a task runs, the
\* task ends with a result of kind cancelled that carries the notes
\* accumulated so far, and neither a decision nor a dispatch follows
C28_CancelledBetweenSteps ==
    thrown = "KeyboardInterrupt"
        => /\ pc = "done"
           /\ result.ret \in {"dict", "str"}
           /\ result.status = "cancelled"
           /\ result.notes = notesSeen

\* the members a payload holds
Present(p) == {m \in Members : p[m] # Absent}
\* a payload that holds exactly the fields its variant declares, each with a
\* value of the declared JSON type
Canonical(p) ==
    /\ IsStr(p.action)
    /\ Present(p) = Declared(TagOf(p))
    /\ \A m \in Present(p) : p[m][1].ty = IF m \in {"x", "y", "seconds"} THEN "int" ELSE "str"

C30_StepIndexLabels ==
    pc = "rendered"
        => LET n == Len(Recorded)
               m == Len(out.parts)
           IN \A i \in 1..m :
                 /\ out.parts[i].idx = n - m + i
                 /\ engine = "sel"
                       => (Recorded[n - m + i].note = "" => out.parts[i].note = <<>>)

C32_IntegerCoordinates ==
    (pc = "localized" /\ out.kind = "coords") => (out.x.ty = "int" /\ out.y.ty = "int")

\* C33: in the Selenium engine the relative pointer is at its origin (0, 0)
\* when a step starts, whatever clicks and writes were dispatched before,
\* those that raised after the move and before the restoring move included
C33_PointerRestored ==
    (engine = "sel" /\ pc = "shot") => (browser.px = 0 /\ browser.py = 0)

AllSet(c) == c.playwright /\ c.browser /\ c.context /\ c.page

\* is_initialized is true exactly when the four handles are set, and a call
\* that raised left the controller cleaned up
HandlesConsistent ==
    /\ controller.is_initialized <=> AllSet(controller)
    /\ out.kind = "raise" => controller = NoController

\* C34: between two calls on a PlaywrightBrowserController is_initialized is
\* true exactly when playwright, browser, context and page are all set; a
\* failed initialize leaves the controller fully cleaned up; initialize on an
\* initialized controller changes nothing
C34_Lifecycle ==
    /\ []HandlesConsistent
    /\ [][(controller.is_initialized /\ out' = Returns("initialize") /\ pc' = pc)
            => controller' = controller]_vars
C34_Witness ==
    /\ out = Raises("restart")
    /\ pc = "agent"
    /\ controller = NoController

\* C35: when PlaywrightWebAgent.run_task has returned, on every exit path
\* (completed, budget reached, error result, exception in initialization,
\* navigation or the agent loop), the controller is cleaned up and the caller
\* holds a dictionary with a status field
C35_ReleasedOnExit ==
    (pc = "done" /\ out = Returns("run_task"))
        => /\ controller = NoController
           /\ result.ret = "dict"
           /\ "status" \in result.keys
           /\ result.status \in {"completed", "error", "max_steps_reached"}
C35_Witness ==
    /\ pc = "done"
    /\ out = Returns("run_task")
    /\ result = WrapperError
    /\ controller = NoController
    /\ tasks = 2

\* C36: the step budget of a task is the max_steps argument of that run_task
\* call, or the default of 50 when the call passes none; the budget given to
\* an earlier task on the same agent does not change it
C36_BudgetPerCall ==
    (engine = "wba" /\ InTask)
        => max_steps = (IF arg = 0 THEN DefaultMaxSteps ELSE arg)

\* C37: in WebBrowsingAgent, between two execute_step calls since the last
\* reset, calls whose dispatch raised included, the step log satisfies
\* len(memory) = current_step - 1
C37_LogMatchesCounter ==
    (engine = "wba" /\ pc \in {"loop", "shot", "done"} /\ tasks >= 1)
        => Len(memory) = current_step - 1

\* C38: execute_step called with current_step > max_steps returns the
\* dictionary with status max_steps_reached whose final_answer is the
\* accumulated notes, asks the model for no decision, issues no controller
\* call and leaves current_step, memory, task_notes and scroll_count (and
\* max_steps) as they were.
C38_BeyondBudget ==
    [][(pc = "step" /\ current_step > max_steps) =>
          /\ result' = Result("dict", "max_steps_reached",
                              {"status", "message", "final_answer"},
                              "", task_notes, 0, 0)
          /\ pc' = "prompt"
          /\ UNCHANGED <<agentVars, decideVars, decisions, dispatches, captures,
                         stepCalls, scrollCalls, located, browser, controller>>]_vars

\* a step command answered by the guard, with a step logged and a note kept
C38_Witness ==
    /\ pc = "prompt"
    /\ result.status = "max_steps_reached"
    /\ result.notes = task_notes
    /\ task_notes # <<>>
    /\ current_step > max_steps
    /\ Len(memory) = max_steps
    /\ decisions = max_steps

====
